---- MODULE Spec2Model ----
(***************************************************************************)
(* Model of pdm_utils.classes.databasetree: the schema graph built by      *)
(* DatabaseTree.__init__ (setup_db_tree_leaves, setup_db_tree_webs,        *)
(* setup_grouping_options), the path search DatabaseTree.find_path and the *)
(* statement builder DatabaseTree.build_values that read it, and the Node  *)
(* operations the graph is made of.                                        *)
(*                                                                         *)
(* Table vertices are named by their position in the catalog's table       *)
(* listing (the i-th listed table is i): ids are opaque to the code, so    *)
(* every listing order of every schema is covered up to renaming.  A       *)
(* Column vertex is named by the table and column it was created for,      *)
(* <<table, column>>; its id (Node.id) is the column name.  The catalog's  *)
(* answers are inputs: each is chosen when the code asks for it and is     *)
(* recorded in catalog_columns and fks.                                    *)
(***************************************************************************)
EXTENDS Integers, Sequences, FiniteSets, TLC

\* ------------------------------------------------------------------ bounds
\* Spec explores the catalogs that list up to MaxCatalogRows rows in all,
\* table rows and foreign-key rows together, each table with any of the
\* ColumnRows.  SpecKeys explores the catalogs of up to MaxKeyTables tables
\* that all have the one primary-key column KeyOnly, and up to MaxKeyFK
\* foreign-key rows.
MaxCatalogRows == 5
MaxKeyTables == 4
MaxKeyFK == 4
\* SpecPaths explores the catalogs of up to MaxPathRows rows in all, and
\* calls find_path with and without an accumulated path.
MaxPathRows == 4
\* SpecValues explores the catalogs of up to MaxValuesRows rows in all, and
\* calls find_path and build_values.
MaxValuesRows == 3
\* SpecCalls explores the catalogs of up to MaxCallsTables tables without
\* constraints, and calls build_values twice.
MaxCallsTables == 1
\* SpecFailures explores the catalogs of up to MaxFailRows rows in all
\* with a backend that can fail.
MaxFailRows == 3
\* SpecParallel explores the parallelize calls with up to MaxInputs inputs.
MaxInputs == 1
\* SpecGroups explores the catalogs of up to MaxGroupRows rows in all whose
\* tables have one key column of any of the GroupTypes.
MaxGroupRows == 3
\* SpecNodes explores the sequences of up to MaxNodeCalls calls of the Node
\* operations on MaxNodes vertices.
MaxNodes == 3
MaxNodeCalls == 3

\* --------------------------------------------------------------- universe
Max(S) == CHOOSE x \in S : \A y \in S : y <= x
TableIds == 1..Max({MaxCatalogRows, MaxKeyTables, MaxPathRows, MaxGroupRows,
                    MaxCallsTables, MaxFailRows,
                    MaxValuesRows + 1})
Columns == {"GeneID", "PhageID"}
Vertices == TableIds \X Columns
None == <<>>            \* Python's None: "no vertex", "no path"
Nodes == { <<n>> : n \in 1..MaxNodes }    \* the vertices of SpecNodes

\* A catalog type string is the sequence of its characters, so that
\* parse_type and the size lookup work on what the catalog reported.
Varchar(size) == <<"v","a","r","c","h","a","r","(">> \o size \o <<")">>
Varchar25 == Varchar(<<"2","5">>)
Varchar35 == Varchar(<<"3","5">>)

\* Column types on both sides of what setup_grouping_options tells apart:
\* varchar(10), varchar(15), varchar(16), enum('a','b'), char(3),
\* tinyint(1), int(11)
GroupTypes ==
    { Varchar(<<"1","0">>), Varchar(<<"1","5">>), Varchar(<<"1","6">>),
      <<"e","n","u","m","(","'","a","'",",","'","b","'",")">>,
      <<"c","h","a","r","(","3",")">>,
      <<"t","i","n","y","i","n","t","(","1",")">>,
      <<"i","n","t","(","1","1",")">> }

\* The answers "SHOW columns IN t" can give: rows of Field, Type and Key.
KeyOnly == << [Field |-> "PhageID", Type |-> Varchar25, Key |-> "PRI"] >>
TypedRows ==
    { << [Field |-> "PhageID", Type |-> type, Key |-> "PRI"] >> :
         type \in GroupTypes }
ColumnRows ==
    { KeyOnly,
      << [Field |-> "PhageID", Type |-> Varchar25, Key |-> ""] >>,
      << [Field |-> "GeneID", Type |-> Varchar35, Key |-> "PRI"],
         [Field |-> "PhageID", Type |-> Varchar25, Key |-> "MUL"] >> }

VARIABLES
    pc,               \* position in DatabaseTree.__init__ / afterwards
    cur,              \* index in db_node.children of the webs loop's table
    db_children,      \* db_node.children: the Table vertices, in order
    children,         \* Node.children of every Table vertex (under
                      \* SpecNodes: of every vertex)
    parents,          \* Node.parents of every Column vertex (under
                      \* SpecNodes: of every vertex)
    primary_key,      \* TableNode.primary_key
    group,            \* ColumnNode.group
    catalog_columns,  \* the rows SHOW columns gave for each table
    fks,              \* the constraint rows KEY_COLUMN_USAGE gave so far
    probes,           \* the COUNT(DISTINCT ...) queries and their answers
    call,             \* the last call made by a user of the graph and
                      \* what it returned
    defaults,         \* the list objects build_values has as the defaults
                      \* of its parameters queries and values
    error,            \* what sql_handle.execute_query raised, if it did
    raised,           \* the exception that left the running operation
    job_queue,        \* start_processes: the jobs and STOP signals put
    done_queue,       \* start_processes: the results the workers put
    main,             \* the process running parallelize
    workers,          \* the worker processes
    ran               \* which worker ran which job of job_queue

error_vars == <<error, raised>>
parallel_vars == <<job_queue, done_queue, main, workers, ran>>
vars == <<pc, cur, db_children, children, parents, primary_key, group,
          catalog_columns, fks, probes, call, defaults, error_vars,
          parallel_vars>>

\* ------------------------------------------------------- sequence helpers
Range(s) == { s[i] : i \in 1..Len(s) }

\* list.remove(x): drops the first occurrence (the caller checks presence)
ListRemove(s, x) ==
    LET i == CHOOSE i \in 1..Len(s) :
                 s[i] = x /\ \A j \in 1..(i-1) : s[j] # x
    IN  SubSeq(s, 1, i-1) \o SubSeq(s, i+1, Len(s))

\* ------------------------------------------------------------ the graph
\* A graph value: the three mutable fields plus ok, which turns FALSE when
\* an operation raised (ValueError of list.remove, AttributeError on None).
Graph(c, p, k, o) == [children |-> c, parents |-> p, primary_key |-> k, ok |-> o]

id(v) == v[2]

\* add_parent with the plausible slip of linking one side only: the parent
\* is recorded in self.parents, self is not appended to parent.children.
add_parent_oneSided(g, self, parent_node) ==
    [g EXCEPT !.parents[self] = Append(@, parent_node)]

\* add_parent with the plausible slip of inserting the new parent at the
\* front of self.parents instead of appending it.
add_parent_atFront(g, self, parent_node) ==
    [g EXCEPT !.children[parent_node] = Append(@, self),
              !.parents[self] = <<parent_node>> \o @]

\* Node.add_parent (ColumnNode.add_table): both sides of the edge
add_parent(g, self, parent_node) ==
    [g EXCEPT !.children[parent_node] = Append(@, self),
              !.parents[self] = Append(@, parent_node)]

add_table(g, self, table_node) == add_parent(g, self, table_node)

\* Node.add_child (TableNode.add_column): both sides of the edge
add_child(g, self, child_node) ==
    [g EXCEPT !.parents[child_node] = Append(@, self),
              !.children[self] = Append(@, child_node)]

add_column(g, self, column_node) == add_child(g, self, column_node)

\* remove_child with the plausible slip of leaving out the test
\* "child_node != None": list.remove(None) raises ValueError.
remove_child_unguarded(g, self, child_node) ==
    IF child_node \notin Range(g.children[self])
    THEN [g EXCEPT !.ok = FALSE]
    ELSE IF self \notin Range(g.parents[child_node])
         THEN [g EXCEPT !.children[self] = ListRemove(@, child_node),
                        !.ok = FALSE]
    ELSE [g EXCEPT !.children[self] = ListRemove(@, child_node),
                   !.parents[child_node] = ListRemove(@, self)]

\* Node.remove_child (TableNode.remove_column)
remove_child(g, self, child_node) ==
    IF child_node = None THEN g
    ELSE IF child_node \notin Range(g.children[self])
         THEN [g EXCEPT !.ok = FALSE]
    ELSE IF self \notin Range(g.parents[child_node])
         THEN [g EXCEPT !.children[self] = ListRemove(@, child_node),
                        !.ok = FALSE]
    ELSE [g EXCEPT !.children[self] = ListRemove(@, child_node),
                   !.parents[child_node] = ListRemove(@, self)]

remove_column(g, self, column_node) == remove_child(g, self, column_node)

\* remove_parent with the plausible slip of unlinking one side only: the
\* parent leaves self.parents, self stays in parent_node.children.
remove_parent_oneSided(g, self, parent_node) ==
    IF parent_node = None THEN g
    ELSE IF parent_node \notin Range(g.parents[self])
         THEN [g EXCEPT !.ok = FALSE]
    ELSE [g EXCEPT !.parents[self] = ListRemove(@, parent_node)]

\* Node.remove_parent (ColumnNode.remove_table)
remove_parent(g, self, parent_node) ==
    IF parent_node = None THEN g
    ELSE IF parent_node \notin Range(g.parents[self])
         THEN [g EXCEPT !.ok = FALSE]
    ELSE IF self \notin Range(g.children[parent_node])
         THEN [g EXCEPT !.parents[self] = ListRemove(@, parent_node),
                        !.ok = FALSE]
    ELSE [g EXCEPT !.parents[self] = ListRemove(@, parent_node),
                   !.children[parent_node] = ListRemove(@, self)]

\* Node.create_parent for the vertex Node(parent_id) constructs
create_parent(g, self, parent_node) == add_parent(g, self, parent_node)

\* Node.create_child (DatabaseNode.create_table) for the vertex
\* Node(child_id) constructs
create_child(g, self, child_node) == add_child(g, self, child_node)

\* TableNode.create_column for the vertex ColumnNode(column) constructs
create_column(g, self, column_node) ==
    [g EXCEPT !.parents[column_node] = Append(@, self),
              !.children[self] = Append(@, column_node)]

\* ColumnNode.create_table for the vertex TableNode(table) constructs
create_table(g, self, table_node) ==
    [g EXCEPT !.children[table_node] = Append(@, self),
              !.parents[self] = Append(@, table_node)]

\* get_child with the plausible slip of returning from inside the loop:
\* only the first child is looked at.
get_child_firstOnly(g, self, child_id) ==
    IF g.children[self] # <<>> /\ id(g.children[self][1]) = child_id
    THEN g.children[self][1]
    ELSE None

\* Node.get_child (TableNode.get_column): the last child with that id
get_child(g, self, child_id) ==
    LET hits == { i \in 1..Len(g.children[self]) :
                     id(g.children[self][i]) = child_id }
    IN  IF hits = {} THEN None
        ELSE g.children[self][CHOOSE i \in hits : \A j \in hits : j <= i]

get_column(g, self, column) == get_child(g, self, column)

\* Node.has_child
has_child(g, self, child) ==
    \E i \in 1..Len(g.children[self]) : id(g.children[self][i]) = child

\* Node.has_parent and Node.get_parent of a Column vertex; the id of a table
\* is the table itself, and the table found is written <<table>>, None
\* being the empty tuple.
has_parent(g, self, parent) ==
    \E i \in 1..Len(g.parents[self]) : g.parents[self][i] = parent

get_parent(g, self, parent_id) ==
    LET hits == { i \in 1..Len(g.parents[self]) :
                     g.parents[self][i] = parent_id }
    IN  IF hits = {} THEN None
        ELSE << g.parents[self][CHOOSE i \in hits : \A j \in hits : j <= i] >>

\* DatabaseNode.has_table and get_table (has_child and get_child of
\* db_node); db is db_node.children.
has_table(db, table) == \E i \in 1..Len(db) : db[i] = table

get_table(db, table) ==
    LET hits == { i \in 1..Len(db) : db[i] = table }
    IN  IF hits = {} THEN None
        ELSE << db[CHOOSE i \in hits : \A j \in hits : j <= i] >>

\* --------------------------------------------------- setup_db_tree_leaves
\* The body of the loop over the listed tables: one TableNode, its columns
\* in the order of the rows, and primary_key set by every PRI row.
RECURSIVE LeavesColumns(_, _, _, _)
LeavesColumns(g, t, rows, i) ==
    IF i > Len(rows) THEN g
    ELSE LET column_node == <<t, rows[i].Field>>
             g1 == add_column(g, t, column_node)
             g2 == IF rows[i].Key = "PRI"
                   THEN [g1 EXCEPT !.primary_key[t] = column_node]
                   ELSE g1
         IN  LeavesColumns(g2, t, rows, i + 1)

\* ----------------------------------------------------- setup_db_tree_webs
\* The loop "for parent in foreign_key_node.parents" with its body.  Python
\* iterates the live list by index, so i advances by one whatever the body
\* removed from the list.
RECURSIVE WebsParentsLoop(_, _, _, _)

\* WebsParentsLoop with the plausible slip of leaving out the test
\* "parent not in primary_key_node.parents".
WebsParentsLoop_unguarded(g, primary_key_node, foreign_key_node, i) ==
    IF ~g.ok \/ i > Len(g.parents[foreign_key_node]) THEN g
    ELSE LET parent == g.parents[foreign_key_node][i]
         IN  WebsParentsLoop(
                 remove_column(add_table(g, primary_key_node, parent),
                               parent, foreign_key_node),
                 primary_key_node, foreign_key_node, i + 1)

WebsParentsLoop(g, primary_key_node, foreign_key_node, i) ==
    IF ~g.ok \/ i > Len(g.parents[foreign_key_node]) THEN g
    ELSE LET parent == g.parents[foreign_key_node][i]
         IN  IF parent \notin Range(g.parents[primary_key_node])
             THEN WebsParentsLoop(
                      remove_column(add_table(g, primary_key_node, parent),
                                    parent, foreign_key_node),
                      primary_key_node, foreign_key_node, i + 1)
             ELSE WebsParentsLoop(g, primary_key_node, foreign_key_node, i + 1)

\* Lines 69-79 for the vertices the three lookups gave.
WebsMerge(g, primary_key_node, ref_table, foreign_key_node) ==
    IF primary_key_node = None THEN [g EXCEPT !.ok = FALSE]
    ELSE LET g1 == add_table(g, primary_key_node, ref_table)
             g2 == IF foreign_key_node = g1.primary_key[ref_table]
                   THEN [g1 EXCEPT !.primary_key[ref_table] = primary_key_node]
                   ELSE g1
         IN  IF foreign_key_node = None THEN [g2 EXCEPT !.ok = FALSE]
             ELSE LET g3 == WebsParentsLoop(g2, primary_key_node,
                                            foreign_key_node, 1)
                  IN  IF g3.ok
                      THEN remove_column(g3, ref_table, foreign_key_node)
                      ELSE g3

\* WebsConstraint with the plausible slip of looking the key column up in
\* the first listed table instead of the table the loop is at.
WebsConstraint_firstTable(g, table, ref_table, column) ==
    WebsMerge(g, get_column(g, db_children[1], column), ref_table,
              get_column(g, ref_table, column))

\* The body of "for dict in foreign_key_results" for the row
\* (TABLE_NAME = ref_table, COLUMN_NAME = column) of the listed table.
WebsConstraint(g, table, ref_table, column) ==
    WebsMerge(g, get_column(g, table, column), ref_table,
              get_column(g, ref_table, column))

\* ------------------------------------------------- setup_grouping_options
\* The names of the normalized types, as character sequences.
varchar == <<"v","a","r","c","h","a","r">>
varchar_sm == <<"v","a","r","c","h","a","r","_","s","m">>
limited_sets ==
    { varchar_sm, <<"e","n","u","m">>, <<"c","h","a","r">>,
      <<"t","i","n","y","i","n","t">> }
str_sets ==
    { <<"b","l","o","b">>, <<"m","e","d","i","u","m","b","l","o","b">>,
      varchar, varchar_sm }
num_sets ==
    { <<"i","n","t">>, <<"d","e","c","i","m","a","l">>,
      <<"m","e","d","i","u","m","i","n","t">>, <<"f","l","o","a","t">>,
      <<"d","a","t","e","t","i","m","e">>, <<"d","o","u","b","l","e">> }

\* str.split(sep)[0]: the characters before the first sep, all if none
SplitFirst(s, sep) ==
    LET hits == { i \in 1..Len(s) : s[i] = sep }
    IN  IF hits = {} THEN s
        ELSE SubSeq(s, 1, (CHOOSE i \in hits : \A j \in hits : i <= j) - 1)

\* ColumnNode.parse_type
parse_type(type) == SplitFirst(SplitFirst(type, "("), " ")

\* re.findall("[1234567890]+", s): the first maximal run of digits, <<>>
\* when s has no digit (indexing the empty result raises IndexError)
DigitChars == <<"0","1","2","3","4","5","6","7","8","9">>
IsDigit(ch) == \E d \in 1..10 : DigitChars[d] = ch
FirstDigits(s) ==
    LET ds == { i \in 1..Len(s) : IsDigit(s[i]) }
    IN  IF ds = {} THEN <<>>
        ELSE LET a == CHOOSE i \in ds : \A j \in ds : i <= j
                 b == CHOOSE k \in a..Len(s) :
                          /\ \A m \in a..k : IsDigit(s[m])
                          /\ k = Len(s) \/ ~IsDigit(s[k+1])
             IN  SubSeq(s, a, b)

\* int() of a run of digits
RECURSIVE int(_)
int(ds) ==
    IF ds = <<>> THEN 0
    ELSE 10 * int(SubSeq(ds, 1, Len(ds) - 1))
         + ((CHOOSE d \in 1..10 : DigitChars[d] = ds[Len(ds)]) - 1)

\* Lines 98-102: the type the classification works with, None when the
\* size lookup of a varchar raises.
GroupType(type) ==
    LET parsed == parse_type(type)
    IN  IF parsed # varchar THEN parsed
        ELSE IF FirstDigits(type) = <<>> THEN None
        ELSE IF int(FirstDigits(type)) <= 15 THEN varchar_sm
        ELSE parsed

\* The types the catalogs give to columns, and for each the type the
\* classification works with.
Types == GroupTypes \cup {Varchar25, Varchar35}
GroupTypeOf == [type \in Types |-> GroupType(type)]

\* The body of "for column in table.children" from the i-th child on;
\* counts[i] is what the backend answers if the i-th child is probed.
\* s holds group, probes and ok; types gives ColumnNode.type.
RECURSIVE GroupColumns(_, _, _, _, _, _)
GroupColumns(s, table, columns, types, counts, i) ==
    IF ~s.ok \/ i > Len(columns) THEN s
    ELSE LET column == columns[i]
             type == GroupTypeOf[types[column]]
             g1 == IF type \in str_sets
                   THEN [s.group EXCEPT ![column] = "str_set"]
                   ELSE IF type \in num_sets
                        THEN [s.group EXCEPT ![column] = "num_set"]
                        ELSE s.group
         IN  IF type = None THEN [s EXCEPT !.ok = FALSE]
             ELSE IF type \in limited_sets
                  THEN GroupColumns(
                         [group |-> IF counts[i] < 150
                                    THEN [g1 EXCEPT ![column] = "limited_set"]
                                    ELSE g1,
                          probes |-> Append(s.probes,
                                        [table |-> table, column |-> column,
                                         count |-> counts[i]]),
                          ok |-> TRUE],
                         table, columns, types, counts, i + 1)
                  ELSE GroupColumns([s EXCEPT !.group = g1],
                                    table, columns, types, counts, i + 1)

\* -------------------------------------------------------------- find_path
\* What a find_path call gives: a path (a list of <<table id, key id>>
\* hops), None, or an exception.
PathResult(p) == [kind |-> "path", path |-> p]
NoPath == [kind |-> "None", path |-> <<>>]
Raised(e) == [kind |-> e, path |-> <<>>]

\* TableNode.get_foreign_keys
get_foreign_keys(g, self) ==
    LET IsForeignKey(column) == /\ column # g.primary_key[self]
                                /\ Len(g.parents[column]) > 1
    IN  SelectSeq(g.children[self], IsForeignKey)

\* previous_tables with the plausible slip of starting the scan of the
\* accumulated path at its second hop.
previous_tables_fromSecond(current_path) ==
    { current_path[i][1] : i \in 2..Len(current_path) }

previous_tables(current_path) ==
    { current_path[i][1] : i \in 1..Len(current_path) }

RECURSIVE find_path(_, _, _, _)
RECURSIVE FindPathLinks(_, _, _, _, _, _)
RECURSIVE FindPathTables(_, _, _, _, _, _)

\* "for table in link.parents" from its j-th element on
FindPathTables(g, curr_table, target_table, current_path, link, j) ==
    IF j > Len(g.parents[link]) THEN NoPath
    ELSE LET table == g.parents[link][j]
         IN  IF table \notin previous_tables(current_path) /\ table # curr_table
             THEN LET path == find_path(g, table, target_table,
                                  Append(current_path, <<table, id(link)>>))
                  IN  IF path.kind \notin {"path", "None"} THEN path
                      ELSE IF path.kind = "path" /\ Len(path.path) = 0
                           THEN Raised("IndexError")
                      ELSE IF path.kind = "path"
                              /\ path.path[Len(path.path)][1] = target_table
                           THEN path
                      ELSE FindPathTables(g, curr_table, target_table,
                                          current_path, link, j + 1)
             ELSE FindPathTables(g, curr_table, target_table,
                                 current_path, link, j + 1)

\* "for link in table_links" from its i-th element on
FindPathLinks(g, curr_table, target_table, current_path, table_links, i) ==
    IF i > Len(table_links) THEN NoPath
    ELSE LET link == table_links[i]
         IN  IF target_table \in Range(g.parents[link])
             THEN PathResult(Append(current_path, <<target_table, id(link)>>))
             ELSE LET r == FindPathTables(g, curr_table, target_table,
                                          current_path, link, 1)
                  IN  IF r.kind = "None"
                      THEN FindPathLinks(g, curr_table, target_table,
                                         current_path, table_links, i + 1)
                      ELSE r

\* find_path with the plausible slip of appending the primary key to the
\* candidate links instead of inserting it at their front.
find_path_keyLast(g, curr_table, target_table, current_path) ==
    IF curr_table = target_table THEN PathResult(current_path)
    ELSE IF g.primary_key[curr_table] = None THEN Raised("AttributeError")
    ELSE LET foreign_keys == get_foreign_keys(g, curr_table)
             table_links ==
                 IF Len(g.parents[g.primary_key[curr_table]]) > 1
                 THEN foreign_keys \o <<g.primary_key[curr_table]>>
                 ELSE foreign_keys
         IN  FindPathLinks(g, curr_table, target_table, current_path,
                           table_links, 1)

\* find_path with the plausible slip of building the candidate links
\* before the test for curr_table = target_table.
find_path_linksFirst(g, curr_table, target_table, current_path) ==
    IF g.primary_key[curr_table] = None THEN Raised("AttributeError")
    ELSE IF curr_table = target_table THEN PathResult(current_path)
    ELSE LET foreign_keys == get_foreign_keys(g, curr_table)
             table_links ==
                 IF Len(g.parents[g.primary_key[curr_table]]) > 1
                 THEN <<g.primary_key[curr_table]>> \o foreign_keys
                 ELSE foreign_keys
         IN  FindPathLinks(g, curr_table, target_table, current_path,
                           table_links, 1)

find_path(g, curr_table, target_table, current_path) ==
    IF curr_table = target_table THEN PathResult(current_path)
    ELSE IF g.primary_key[curr_table] = None THEN Raised("AttributeError")
    ELSE LET foreign_keys == get_foreign_keys(g, curr_table)
             table_links ==
                 IF Len(g.parents[g.primary_key[curr_table]]) > 1
                 THEN <<g.primary_key[curr_table]>> \o foreign_keys
                 ELSE foreign_keys
         IN  FindPathLinks(g, curr_table, target_table, current_path,
                           table_links, 1)

\* Lines 203-205: the candidate links of curr_table, its primary key first
\* when that has more than one parent.
table_links(g, curr_table) ==
    IF Len(g.parents[g.primary_key[curr_table]]) > 1
    THEN <<g.primary_key[curr_table]>> \o get_foreign_keys(g, curr_table)
    ELSE get_foreign_keys(g, curr_table)

\* find_path(curr_table, target_table, current_path) followed call by
\* call: result is what the call gives, frames the accumulated paths of
\* all the calls of find_path it makes, itself included.
RECURSIVE FindPathRun(_, _, _, _)
RECURSIVE FramesLinks(_, _, _, _, _, _)
RECURSIVE FramesTables(_, _, _, _, _, _)

\* "for table in link.parents" from its j-th element on
FramesTables(g, curr_table, target_table, current_path, link, j) ==
    IF j > Len(g.parents[link]) THEN [result |-> NoPath, frames |-> {}]
    ELSE LET table == g.parents[link][j]
             path == Append(current_path, <<table, id(link)>>)
             sub == FindPathRun(g, table, target_table, path)
             found == sub.result
             returns == \/ found.kind \notin {"path", "None"}
                        \/ /\ found.kind = "path"
                           /\ \/ Len(found.path) = 0
                              \/ found.path[Len(found.path)][1] = target_table
             rest == FramesTables(g, curr_table, target_table,
                                  current_path, link, j + 1)
         IN  IF table \notin previous_tables(current_path) /\ table # curr_table
             THEN IF returns
                  THEN [result |-> IF found.kind = "path" /\ Len(found.path) = 0
                                   THEN Raised("IndexError") ELSE found,
                        frames |-> sub.frames]
                  ELSE [result |-> rest.result,
                        frames |-> sub.frames \cup rest.frames]
             ELSE rest

\* "for link in table_links" from its i-th element on
FramesLinks(g, curr_table, target_table, current_path, links, i) ==
    IF i > Len(links) THEN [result |-> NoPath, frames |-> {}]
    ELSE IF target_table \in Range(g.parents[links[i]])
    THEN [result |-> PathResult(Append(current_path,
                                       <<target_table, id(links[i])>>)),
          frames |-> {}]
    ELSE LET r == FramesTables(g, curr_table, target_table, current_path,
                               links[i], 1)
             rest == FramesLinks(g, curr_table, target_table, current_path,
                                 links, i + 1)
         IN  IF r.result.kind = "None"
             THEN [result |-> rest.result, frames |-> r.frames \cup rest.frames]
             ELSE r

FindPathRun(g, curr_table, target_table, current_path) ==
    IF curr_table = target_table
    THEN [result |-> PathResult(current_path), frames |-> {current_path}]
    ELSE IF g.primary_key[curr_table] = None
    THEN [result |-> Raised("AttributeError"), frames |-> {current_path}]
    ELSE LET r == FramesLinks(g, curr_table, target_table, current_path,
                              table_links(g, curr_table), 1)
         IN  [result |-> r.result, frames |-> {current_path} \cup r.frames]

\* The accumulated paths of all the calls of find_path that the call
\* find_path(curr_table, target_table, current_path) makes, itself included.
FindPathFrames(g, curr_table, target_table, current_path) ==
    FindPathRun(g, curr_table, target_table, current_path).frames

\* The tables on which the call find_path(curr_table, target_table,
\* current_path) and the calls it makes run the insert of line 205; frames
\* holds the accumulated paths of these calls.
InsertingTables(g, curr_table, target_table, current_path, frames) ==
    LET tables == {curr_table}
                  \cup { p[Len(p)][1] : p \in frames \ {current_path} }
    IN  { t \in tables : /\ t # target_table
                         /\ g.primary_key[t] # None
                         /\ Len(g.parents[g.primary_key[t]]) > 1 }

\* The insert of line 205 with the plausible slip of get_foreign_keys
\* handing out self.children itself rather than a list of its own.
insert_primary_key_shared(g, curr_table) ==
    [g EXCEPT !.children[curr_table] = <<g.primary_key[curr_table]>> \o @]

\* The graph after line 205 of a call on curr_table: the insert writes
\* table_links, the list get_foreign_keys built at line 673, and no list
\* of the graph.
insert_primary_key(g, curr_table) == g

\* The graph after the call find_path(curr_table, target_table,
\* current_path), which made the calls of frames, has returned or raised.
find_path_graph(g, curr_table, target_table, current_path, frames) ==
    LET inserting == InsertingTables(g, curr_table, target_table,
                                     current_path, frames)
    IN  [g EXCEPT !.children =
            [t \in DOMAIN @ |->
                IF t \in inserting
                THEN insert_primary_key(g, t).children[t]
                ELSE @[t]]]

\* ----------------------------------------------------------- build_values
\* A statement is the sequence of the strings that build_values
\* concatenates; a table's name is its id written as a string.
\* sep.join(l): the elements of l with sep between neighbours
RECURSIVE join(_, _)
join(sep, l) ==
    IF Len(l) <= 1 THEN l
    ELSE join(sep, SubSeq(l, 1, Len(l) - 1)) \o <<sep, l[Len(l)]>>

\* build_query with the plausible slip of writing the WHERE keyword for
\* extra conditions only.
build_query_whereForQueries(g, table, column, values_column, queries, values) ==
    LET q1 == <<"SELECT ", column, " FROM ", ToString(table)>>
        q2 == IF queries # <<>> THEN q1 \o <<" WHERE ">> ELSE q1
        q3 == IF queries # <<>>
              THEN q2 \o join(" and ", queries)
                      \o (IF values # <<>> THEN <<" and ">> ELSE <<>>)
              ELSE q2
    IN  IF values # <<>> /\ values_column = None
        THEN IF g.primary_key[table] = None THEN None
             ELSE q3 \o <<id(g.primary_key[table]), " IN ('">>
                     \o join("','", values) \o <<"')">>
        ELSE IF values # <<>> /\ values_column # None
        THEN q3 \o <<values_column[1], " IN ('">>
                \o join("','", values) \o <<"')">>
        ELSE q3

\* Lines 250-265: the statement for a validated table and column, None
\* when table_node.primary_key.id raises AttributeError.  An optional
\* string argument is None or <<the string>>.
build_query(g, table, column, values_column, queries, values) ==
    LET q1 == <<"SELECT ", column, " FROM ", ToString(table)>>
        q2 == IF queries # <<>> \/ values # <<>>
              THEN q1 \o <<" WHERE ">> ELSE q1
        q3 == IF queries # <<>>
              THEN q2 \o join(" and ", queries)
                      \o (IF values # <<>> THEN <<" and ">> ELSE <<>>)
              ELSE q2
    IN  IF values # <<>> /\ values_column = None
        THEN IF g.primary_key[table] = None THEN None
             ELSE q3 \o <<id(g.primary_key[table]), " IN ('">>
                     \o join("','", values) \o <<"')">>
        ELSE IF values # <<>> /\ values_column # None
        THEN q3 \o <<values_column[1], " IN ('">>
                \o join("','", values) \o <<"')">>
        ELSE q3

\* What a build_values call gives: the statements it passed to
\* sql_handle.execute_query and the values it returned or the exception
\* it raised.
Built(statements, kind, values) ==
    [statements |-> statements, kind |-> kind, values |-> values]

\* build_values_lists with the plausible slip of leaving out the
\* statement "values = []": the results are appended to the list the
\* parameter came with.
build_values_lists_inPlace(values, rows) ==
    [returned |-> values \o rows, argument |-> values \o rows]

\* Lines 267-269: the name values is bound to a new list, which receives
\* the selected column of every row; returned is the list the call
\* returns, argument the list object the parameter came with, as the call
\* leaves it.
build_values_lists(values, rows) ==
    [returned |-> rows, argument |-> values]

\* build_values with the plausible slip of leaving out the test of the
\* column name.
build_values_anyColumn(g, db, table, column, values_column, queries, values, rows) ==
    IF table \notin Range(db) THEN Built(<<>>, "ValueError", <<>>)
    ELSE LET query == build_query(g, table, column, values_column,
                                  queries, values)
         IN  IF query = None THEN Built(<<>>, "AttributeError", <<>>)
             ELSE Built(<<query>>, "values", rows)

\* DatabaseTree.build_values; db is db_node.children, and rows holds what
\* the rows the backend answers have in the selected column.
build_values(g, db, table, column, values_column, queries, values, rows) ==
    IF table \notin Range(db) THEN Built(<<>>, "ValueError", <<>>)
    ELSE IF ~has_child(g, table, column) THEN Built(<<>>, "ValueError", <<>>)
    ELSE LET query == build_query(g, table, column, values_column,
                                  queries, values)
         IN  IF query = None THEN Built(<<>>, "AttributeError", <<>>)
             ELSE Built(<<query>>, "values",
                        build_values_lists(values, rows).returned)

NoCall == [curr |-> 0, target |-> 0, result |-> NoPath]

\* The default lists of build_values as the def statement creates them.
NoDefaults == [queries |-> <<>>, values |-> <<>>]

\* No exception was raised.
NoException == "no exception"

\* parallelize is not running: no queue, no process.
NoParallelize ==
    /\ job_queue = <<>>
    /\ done_queue = <<>>
    /\ main = [pc |-> "idle"]
    /\ workers = <<>>
    /\ ran = <<>>

CurrentGraph == Graph(children, parents, primary_key, TRUE)

\* The rows the constraint listing of a table gave.
ConstraintRows(table) == { f \in fks : f[3] = table }

Init ==
    /\ pc = "leaves"
    /\ cur = 0
    /\ db_children = <<>>
    /\ children = [t \in TableIds |-> <<>>]
    /\ parents = [v \in Vertices |-> <<>>]
    /\ primary_key = [t \in TableIds |-> None]
    /\ group = [v \in Vertices |-> "Undefined"]
    /\ catalog_columns = [t \in TableIds |-> <<>>]
    /\ fks = {}
    /\ probes = <<>>
    /\ call = NoCall
    /\ defaults = NoDefaults
    /\ error = NoException
    /\ raised = NoException
    /\ NoParallelize

\* One more table of the listing, its column rows among rowsets.
LeavesTableOf(rowsets, max) ==
    /\ pc = "leaves"
    /\ Len(db_children) < max
    /\ \E rows \in rowsets :
         LET t == Len(db_children) + 1
             g == LeavesColumns(CurrentGraph, t, rows, 1)
         IN  /\ db_children' = Append(db_children, t)
             /\ children' = g.children
             /\ parents' = g.parents
             /\ primary_key' = g.primary_key
             /\ catalog_columns' = [catalog_columns EXCEPT ![t] = rows]
    /\ UNCHANGED <<pc, cur, group, fks, probes, call, defaults, error_vars,
                   parallel_vars>>

LeavesTable == LeavesTableOf(ColumnRows, MaxCatalogRows)
LeavesKeyTable == LeavesTableOf({KeyOnly}, MaxKeyTables)

\* The table listing is exhausted: setup_db_tree_leaves returns.
LeavesDone ==
    /\ pc = "leaves"
    /\ pc' = "webs"
    /\ cur' = 1
    /\ UNCHANGED <<db_children, children, parents, primary_key, group,
                   catalog_columns, fks, probes, call, defaults, error_vars,
                   parallel_vars>>

\* One row of the constraint listing of the table the webs loop is at.
WebsRowUpTo(max) ==
    /\ pc = "webs"
    /\ cur <= Len(db_children)
    /\ Cardinality(fks) < max
    /\ \E ref_table \in Range(db_children), column \in Columns :
         LET table == db_children[cur]
             g == WebsConstraint(CurrentGraph, table, ref_table, column)
         IN  /\ <<ref_table, column, table>> \notin fks
             /\ \E i \in 1..Len(catalog_columns[table]) :
                    catalog_columns[table][i].Field = column
             /\ \E i \in 1..Len(catalog_columns[ref_table]) :
                    catalog_columns[ref_table][i].Field = column
             /\ fks' = fks \cup {<<ref_table, column, table>>}
             /\ children' = g.children
             /\ parents' = g.parents
             /\ primary_key' = g.primary_key
             /\ pc' = IF g.ok THEN pc ELSE "failed"
    /\ UNCHANGED <<cur, db_children, group, catalog_columns, probes, call,
                   defaults, error_vars, parallel_vars>>

WebsRow == WebsRowUpTo(MaxCatalogRows - Len(db_children))
WebsKeyRow == WebsRowUpTo(MaxKeyFK)

\* The constraint listing of the table is exhausted: on to the next table.
WebsNextTable ==
    /\ pc = "webs"
    /\ cur <= Len(db_children)
    /\ cur' = cur + 1
    /\ UNCHANGED <<pc, db_children, children, parents, primary_key, group,
                   catalog_columns, fks, probes, call, defaults, error_vars,
                   parallel_vars>>

\* Every table was handled: setup_db_tree_webs returns.
WebsDone ==
    /\ pc = "webs"
    /\ cur > Len(db_children)
    /\ pc' = "groups"
    /\ cur' = 1
    /\ UNCHANGED <<db_children, children, parents, primary_key, group,
                   catalog_columns, fks, probes, call, defaults, error_vars,
                   parallel_vars>>

\* ColumnNode.type of the Column vertices in vs: the Type of the row each
\* was created for.
ColumnTypes(vs) ==
    [v \in vs |->
        LET rows == catalog_columns[v[1]]
        IN  rows[CHOOSE i \in 1..Len(rows) : rows[i].Field = v[2]].Type]

\* What the backend can answer to a COUNT(DISTINCT ...) probe.
Counts == {0, 5, 149, 150, 500}

\* The answers come from one database: the same probe gets the same
\* answer, and a referencing column has no more distinct values than the
\* column it references.
ConsistentProbes(pr) ==
    \A a \in 1..Len(pr), b \in 1..Len(pr) :
        id(pr[a].column) = id(pr[b].column) =>
            /\ pr[a].table = pr[b].table => pr[a].count = pr[b].count
            /\ <<pr[a].table, id(pr[a].column), pr[b].table>> \in fks
                   => pr[a].count <= pr[b].count

\* setup_grouping_options for the table the loop is at: every child of the
\* table is classified, the probed ones with the backend's answers.
GroupTable ==
    /\ pc = "groups"
    /\ cur <= Len(db_children)
    /\ LET table == db_children[cur]
           columns == children[table]
           types == ColumnTypes(Range(columns))
           probed == { i \in 1..Len(columns) :
                         GroupTypeOf[types[columns[i]]] \in limited_sets }
       IN  \E counts \in [probed -> Counts] :
             LET s == GroupColumns([group |-> group, probes |-> probes,
                                    ok |-> TRUE],
                                   table, columns, types, counts, 1)
             IN  /\ ConsistentProbes(s.probes)
                 /\ group' = s.group
                 /\ probes' = s.probes
                 /\ pc' = IF s.ok THEN pc ELSE "failed"
    /\ cur' = cur + 1
    /\ UNCHANGED <<db_children, children, parents, primary_key,
                   catalog_columns, fks, call, defaults, error_vars,
                   parallel_vars>>

\* Every table was classified: the constructor returns.
GroupsDone ==
    /\ pc = "groups"
    /\ cur > Len(db_children)
    /\ pc' = "done"
    /\ UNCHANGED <<cur, db_children, children, parents, primary_key, group,
                   catalog_columns, fks, probes, call, defaults, error_vars,
                   parallel_vars>>

\* A caller asks for a path between two tables of the finished graph;
\* frames records the accumulated paths of the calls that were made.
FindPath ==
    /\ pc = "done"
    /\ pc' = "called"
    /\ \E curr_table \in Range(db_children), target_table \in Range(db_children) :
         LET frames == FindPathFrames(CurrentGraph, curr_table,
                                      target_table, <<>>)
             after == find_path_graph(CurrentGraph, curr_table,
                                      target_table, <<>>, frames)
         IN  /\ call' = [curr |-> curr_table, target |-> target_table,
                         frames |-> frames,
                         result |-> find_path(CurrentGraph, curr_table,
                                              target_table, <<>>)]
             /\ children' = after.children
             /\ parents' = after.parents
             /\ primary_key' = after.primary_key
    /\ UNCHANGED <<cur, db_children, group, catalog_columns, fks, probes,
                   defaults, error_vars, parallel_vars>>

\* The accumulated paths a caller hands to find_path: one hop to a table.
CurrentPaths == { << <<t, "PhageID">> >> : t \in Range(db_children) }

\* A caller asks for a path between two tables of the finished graph and
\* hands over an accumulated path; after is the caller's list once the call
\* has returned: lines 209 and 214 append to path, a copy of current_path.
FindPathFrom ==
    /\ pc = "done"
    /\ pc' = "called_from"
    /\ \E curr_table \in Range(db_children), target_table \in Range(db_children),
          current_path \in CurrentPaths :
         LET frames == FindPathFrames(CurrentGraph, curr_table,
                                      target_table, current_path)
             after == find_path_graph(CurrentGraph, curr_table,
                                      target_table, current_path, frames)
         IN  /\ call' = [curr |-> curr_table, target |-> target_table,
                         current_path |-> current_path,
                         after |-> current_path,
                         frames |-> frames,
                         result |-> find_path(CurrentGraph, curr_table,
                                              target_table, current_path)]
             /\ children' = after.children
             /\ parents' = after.parents
             /\ primary_key' = after.primary_key
    /\ UNCHANGED <<cur, db_children, group, catalog_columns, fks, probes,
                   defaults, error_vars, parallel_vars>>

Next ==
    \/ LeavesTable
    \/ LeavesDone
    \/ WebsRow
    \/ WebsNextTable
    \/ WebsDone
    \/ GroupTable
    \/ GroupsDone
    \/ FindPath

Spec == Init /\ [][Next]_vars

NextKeys ==
    \/ LeavesKeyTable
    \/ LeavesDone
    \/ WebsKeyRow
    \/ WebsNextTable
    \/ WebsDone
    \/ GroupTable
    \/ GroupsDone
    \/ FindPath

SpecKeys == Init /\ [][NextKeys]_vars

\* The catalogs of up to MaxGroupRows rows with typed key columns.
LeavesTypedTable == LeavesTableOf(TypedRows, MaxGroupRows)
WebsTypedRow == WebsRowUpTo(MaxGroupRows - Len(db_children))

NextGroups ==
    \/ LeavesTypedTable
    \/ LeavesDone
    \/ WebsTypedRow
    \/ WebsNextTable
    \/ WebsDone
    \/ GroupTable
    \/ GroupsDone

SpecGroups == Init /\ [][NextGroups]_vars

\* The arguments callers hand to build_values, and the backend's answers.
ValuesColumns == { None, <<"GeneID">> }
QueryLists == { <<>>, <<"Cluster = 'A'">>, <<"Cluster = 'A'", "Length > 5">> }
ValueLists == { <<>>, <<"Trixie">>, <<"Trixie", "L5">> }
Answers == { <<>>, <<"L5", "Trixie">> }

\* A caller asks for the values of a column of a table, listed or not, on
\* a graph that may have served such calls before.  The caller leaves out
\* the parameters in defaulted, which then are the default list objects,
\* and hands over lists of its own for the others.
BuildValuesAt(at) ==
    /\ pc = at
    /\ pc' = "built"
    /\ \E table \in Range(db_children) \cup {Len(db_children) + 1},
          column \in Columns, values_column \in ValuesColumns,
          defaulted \in SUBSET {"queries", "values"}, rows \in Answers :
         \E queries \in IF "queries" \in defaulted THEN {defaults.queries}
                         ELSE QueryLists,
            values \in IF "values" \in defaulted THEN {defaults.values}
                        ELSE ValueLists :
           LET result == build_values(CurrentGraph, db_children, table,
                                      column, values_column, queries,
                                      values, rows)
               after == IF result.kind = "values"
                        THEN build_values_lists(values, rows).argument
                        ELSE values
           IN  /\ call' = [table |-> table, column |-> column,
                           values_column |-> values_column,
                           queries |-> queries, values |-> values,
                           defaulted |-> defaulted, rows |-> rows,
                           again |-> (pc = "built"),
                           values_after |-> after, result |-> result]
               /\ defaults' = IF "values" \in defaulted
                              THEN [defaults EXCEPT !.values = after]
                              ELSE defaults
    /\ UNCHANGED <<cur, db_children, children, parents, primary_key, group,
                   catalog_columns, fks, probes, error_vars, parallel_vars>>

\* The first build_values call on a graph, and a second one.
BuildValues == BuildValuesAt("done")
BuildValuesAgain ==
    /\ pc = "built"
    /\ ~call.again
    /\ BuildValuesAt("built")

\* The names callers look up: the columns of the catalogs and one more.
ColumnNames == Columns \cup {"Cluster"}

\* A caller looks a column of a table up by name.
LookupChild ==
    /\ pc = "done"
    /\ pc' = "looked"
    /\ \E self \in Range(db_children), child_id \in ColumnNames :
         call' = [op |-> "get_child", self |-> self, id |-> child_id,
                  has |-> has_child(CurrentGraph, self, child_id),
                  got |-> get_child(CurrentGraph, self, child_id)]
    /\ UNCHANGED <<cur, db_children, children, parents, primary_key, group,
                   catalog_columns, fks, probes, defaults, error_vars,
                   parallel_vars>>

\* A caller looks a table of a Column vertex up by name.
LookupParent ==
    /\ pc = "done"
    /\ pc' = "looked"
    /\ \E self \in Vertices, parent_id \in TableIds :
         call' = [op |-> "get_parent", self |-> self, id |-> parent_id,
                  has |-> has_parent(CurrentGraph, self, parent_id),
                  got |-> get_parent(CurrentGraph, self, parent_id)]
    /\ UNCHANGED <<cur, db_children, children, parents, primary_key, group,
                   catalog_columns, fks, probes, defaults, error_vars,
                   parallel_vars>>

\* A caller looks a table of the database up by name.
LookupTable ==
    /\ pc = "done"
    /\ pc' = "looked"
    /\ \E table \in TableIds :
         call' = [op |-> "get_table", self |-> 0, id |-> table,
                  has |-> has_table(db_children, table),
                  got |-> get_table(db_children, table)]
    /\ UNCHANGED <<cur, db_children, children, parents, primary_key, group,
                   catalog_columns, fks, probes, defaults, error_vars,
                   parallel_vars>>

\* The catalogs of up to MaxValuesRows rows, with the calls a user of the
\* finished graph can make.
LeavesValuesTable == LeavesTableOf(ColumnRows, MaxValuesRows)
WebsValuesRow == WebsRowUpTo(MaxValuesRows - Len(db_children))

NextValues ==
    \/ LeavesValuesTable
    \/ LeavesDone
    \/ WebsValuesRow
    \/ WebsNextTable
    \/ WebsDone
    \/ GroupTable
    \/ GroupsDone
    \/ FindPath
    \/ FindPathFrom
    \/ BuildValues
    \/ LookupChild
    \/ LookupParent
    \/ LookupTable

SpecValues == Init /\ [][NextValues]_vars

\* The catalogs of up to MaxCallsTables tables without constraints, with
\* two build_values calls in a row.
LeavesCallsTable == LeavesTableOf(ColumnRows, MaxCallsTables)

NextCalls ==
    \/ LeavesCallsTable
    \/ LeavesDone
    \/ WebsNextTable
    \/ WebsDone
    \/ GroupTable
    \/ GroupsDone
    \/ BuildValues
    \/ BuildValuesAgain

SpecCalls == Init /\ [][NextCalls]_vars

\* ------------------------------------------------------ backend failures
\* What sql_handle.execute_query can raise.
BackendErrors == {"OperationalError", "ProgrammingError"}

\* execute_query_raised with the plausible slip of a try statement around
\* the call that drops the exception.
execute_query_raised_masked(e) == NoException

\* What leaves an operation when one of its sql_handle.execute_query calls
\* raised e: no try statement encloses any of the calls, so e itself.
execute_query_raised(e) == e

\* A query of the constructor raised e: the constructor ends there unless
\* nothing left the set-up function.
ConstructionRaises(e) ==
    /\ error' = e
    /\ raised' = execute_query_raised(e)
    /\ pc' = IF execute_query_raised(e) = NoException THEN pc ELSE "raised"

\* The table listing or the column listing of the next table raised.
LeavesRaises ==
    /\ pc = "leaves"
    /\ \E e \in BackendErrors : ConstructionRaises(e)
    /\ UNCHANGED <<cur, db_children, children, parents, primary_key, group,
                   catalog_columns, fks, probes, call, defaults,
                   parallel_vars>>

\* The constraint listing of the table the webs loop is at raised.
WebsRaises ==
    /\ pc = "webs"
    /\ cur <= Len(db_children)
    /\ ConstraintRows(db_children[cur]) = {}
    /\ \E e \in BackendErrors : ConstructionRaises(e)
    /\ UNCHANGED <<cur, db_children, children, parents, primary_key, group,
                   catalog_columns, fks, probes, call, defaults,
                   parallel_vars>>

\* The probe of the k-th column of the table the grouping loop is at
\* raised: the columns before it are classified, the k-th has the group of
\* lines 105-109.
GroupsRaises ==
    /\ pc = "groups"
    /\ cur <= Len(db_children)
    /\ LET table == db_children[cur]
           columns == children[table]
           types == ColumnTypes(Range(columns))
           probed == { i \in 1..Len(columns) :
                         GroupTypeOf[types[columns[i]]] \in limited_sets }
       IN  \E k \in probed, counts \in [probed -> Counts] :
             LET s == GroupColumns([group |-> group, probes |-> probes,
                                    ok |-> TRUE],
                                   table, SubSeq(columns, 1, k - 1), types,
                                   counts, 1)
                 type == GroupTypeOf[types[columns[k]]]
             IN  /\ ConsistentProbes(s.probes)
                 /\ s.ok
                 /\ group' = IF type \in str_sets
                             THEN [s.group EXCEPT ![columns[k]] = "str_set"]
                             ELSE IF type \in num_sets
                                  THEN [s.group EXCEPT
                                            ![columns[k]] = "num_set"]
                                  ELSE s.group
                 /\ probes' = s.probes
    /\ \E e \in BackendErrors : ConstructionRaises(e)
    /\ UNCHANGED <<cur, db_children, children, parents, primary_key,
                   catalog_columns, fks, call, defaults, parallel_vars>>

\* The query of a build_values call raised: the call got as far as line
\* 268 and ends there.
BuildValuesRaises ==
    /\ pc = "done"
    /\ pc' = "built"
    /\ \E table \in Range(db_children), column \in Columns,
          values_column \in ValuesColumns, queries \in QueryLists,
          values \in ValueLists, e \in BackendErrors :
         LET result == build_values(CurrentGraph, db_children, table,
                                    column, values_column, queries,
                                    values, <<>>)
         IN  /\ result.kind = "values"
             /\ error' = e
             /\ raised' = execute_query_raised(e)
             /\ call' = [table |-> table, column |-> column,
                         values_column |-> values_column,
                         queries |-> queries, values |-> values,
                         defaulted |-> {}, rows |-> <<>>, again |-> FALSE,
                         values_after |-> values,
                         result |-> Built(result.statements,
                                          execute_query_raised(e), <<>>)]
    /\ UNCHANGED <<cur, db_children, children, parents, primary_key, group,
                   catalog_columns, fks, probes, defaults, parallel_vars>>

\* The catalogs of up to MaxFailRows rows in all, whose tables have a
\* probed key column or an unprobed key and a second column, with a
\* backend that can fail at any query.
FailRows ==
    { << [Field |-> "PhageID",
          Type |-> <<"t","i","n","y","i","n","t","(","1",")">>,
          Key |-> "PRI"] >>,
      << [Field |-> "GeneID", Type |-> Varchar35, Key |-> "PRI"],
         [Field |-> "PhageID", Type |-> Varchar25, Key |-> "MUL"] >> }
LeavesFailTable == LeavesTableOf(FailRows, MaxFailRows)
WebsFailRow == WebsRowUpTo(MaxFailRows - Len(db_children))

NextFailures ==
    \/ LeavesFailTable
    \/ LeavesDone
    \/ LeavesRaises
    \/ WebsFailRow
    \/ WebsNextTable
    \/ WebsDone
    \/ WebsRaises
    \/ GroupTable
    \/ GroupsDone
    \/ GroupsRaises
    \/ BuildValuesRaises

SpecFailures == Init /\ [][NextFailures]_vars

\* ---------------------------------------------------- the Node operations
\* Vertices built with empty edge lists, and no call made yet.
InitNodes ==
    /\ pc = "nodes"
    /\ cur = 0
    /\ db_children = <<>>
    /\ children = [n \in Nodes |-> <<>>]
    /\ parents = [n \in Nodes |-> <<>>]
    /\ primary_key = [t \in TableIds |-> None]
    /\ group = [v \in Vertices |-> "Undefined"]
    /\ catalog_columns = [t \in TableIds |-> <<>>]
    /\ fks = {}
    /\ probes = <<>>
    /\ call = NoCall
    /\ defaults = NoDefaults
    /\ error = NoException
    /\ raised = NoException
    /\ NoParallelize

\* A vertex a constructor has just built: no edges yet.
IsNew(n) == children[n] = <<>> /\ parents[n] = <<>>

\* What the call op(self, arg) returns when it does not raise: add_parent
\* and add_child have no return statement, the others return the vertex
\* they were given or built.
Returned(op, arg) ==
    IF op \in {"add_parent", "add_child"} THEN None ELSE arg

\* The call op(self, arg) gave the graph g: the lists are as the call left
\* them, also when it raised.
NodeCall(op, self, arg, g) ==
    /\ pc = "nodes"
    /\ cur < MaxNodeCalls
    /\ cur' = cur + 1
    /\ children' = g.children
    /\ parents' = g.parents
    /\ call' = [op |-> op, self |-> self, arg |-> arg, raised |-> ~g.ok,
                returned |-> IF g.ok THEN Returned(op, arg) ELSE None]
    /\ UNCHANGED <<pc, db_children, primary_key, group, catalog_columns, fks,
                   probes, defaults, error_vars, parallel_vars>>

NodeAddParent ==
    \E self \in Nodes, parent_node \in Nodes :
        NodeCall("add_parent", self, parent_node,
                 add_parent(CurrentGraph, self, parent_node))

NodeAddChild ==
    \E self \in Nodes, child_node \in Nodes :
        NodeCall("add_child", self, child_node,
                 add_child(CurrentGraph, self, child_node))

NodeRemoveParent ==
    \E self \in Nodes, parent_node \in Nodes \cup {None} :
        NodeCall("remove_parent", self, parent_node,
                 remove_parent(CurrentGraph, self, parent_node))

NodeRemoveChild ==
    \E self \in Nodes, child_node \in Nodes \cup {None} :
        NodeCall("remove_child", self, child_node,
                 remove_child(CurrentGraph, self, child_node))

NodeCreateParent ==
    \E self \in Nodes, parent_node \in Nodes :
        /\ IsNew(parent_node) /\ parent_node # self
        /\ NodeCall("create_parent", self, parent_node,
                    create_parent(CurrentGraph, self, parent_node))

NodeCreateChild ==
    \E self \in Nodes, child_node \in Nodes :
        /\ IsNew(child_node) /\ child_node # self
        /\ NodeCall("create_child", self, child_node,
                    create_child(CurrentGraph, self, child_node))

NodeCreateColumn ==
    \E self \in Nodes, column_node \in Nodes :
        /\ IsNew(column_node) /\ column_node # self
        /\ NodeCall("create_column", self, column_node,
                    create_column(CurrentGraph, self, column_node))

NodeCreateTable ==
    \E self \in Nodes, table_node \in Nodes :
        /\ IsNew(table_node) /\ table_node # self
        /\ NodeCall("create_table", self, table_node,
                    create_table(CurrentGraph, self, table_node))

NextNodes ==
    \/ NodeAddParent
    \/ NodeAddChild
    \/ NodeRemoveParent
    \/ NodeRemoveChild
    \/ NodeCreateParent
    \/ NodeCreateChild
    \/ NodeCreateColumn
    \/ NodeCreateTable

SpecNodes == InitNodes /\ [][NextNodes]_vars

\* The catalogs of up to MaxPathRows rows, with find_path called with and
\* without an accumulated path.
LeavesPathTable == LeavesTableOf(ColumnRows, MaxPathRows)
WebsPathRow == WebsRowUpTo(MaxPathRows - Len(db_children))

NextPaths ==
    \/ LeavesPathTable
    \/ LeavesDone
    \/ WebsPathRow
    \/ WebsNextTable
    \/ WebsDone
    \/ GroupTable
    \/ GroupsDone
    \/ FindPath
    \/ FindPathFrom

SpecPaths == Init /\ [][NextPaths]_vars

\* =================================================================== claims
Tables == Range(db_children)
Canonicalized == pc \in {"done", "called"}

\* The tables that share the key identity of column c with table t: the
\* ones linked to t by chains of the catalog's constraints on c.
RECURSIVE KeyGroupFrom(_, _)
KeyGroupFrom(S, c) ==
    LET S2 == S \cup { u \in Tables :
                  \E f \in fks : /\ f[2] = c
                                 /\ \/ f[1] \in S /\ u = f[3]
                                    \/ f[3] \in S /\ u = f[1] }
    IN  IF S2 = S THEN S ELSE KeyGroupFrom(S2, c)
KeyGroup(t, c) == KeyGroupFrom({t}, c)

InConstraint(t, c) == \E f \in fks : f[2] = c /\ (f[1] = t \/ f[3] = t)
Participates(t) == \E c \in Columns : InConstraint(t, c)

\* The Column vertices named c that some table of K has as a child.
KeyVertices(K, c) ==
    { v \in Vertices : id(v) = c /\ \E u \in K : v \in Range(children[u]) }

\* C1: after canonicalization every group of tables that share a key through
\* foreign-key constraints has exactly one Column vertex for the key, whose
\* parents list is exactly the tables of the group, each once, and which is
\* a child of each of them.
C1_OneVertexPerKey ==
    Canonicalized =>
        \A c \in Columns : \A t \in Tables :
            InConstraint(t, c) =>
                LET K == KeyGroup(t, c)
                    vs == KeyVertices(K, c)
                IN  /\ Cardinality(vs) = 1
                    /\ \A v \in vs :
                          /\ Range(parents[v]) = K
                          /\ Len(parents[v]) = Cardinality(K)
                          /\ \A u \in K : v \in Range(children[u])

\* C2: after canonicalization, for every constraint (ref.col -> T.col) of the
\* catalog the parents of T.get_column(col) contain both T and ref.
C2_BothOwnersInParents ==
    Canonicalized =>
        \A f \in fks :
            LET v == get_column(CurrentGraph, f[3], f[2])
            IN  /\ v # None
                /\ f[3] \in Range(parents[v])
                /\ f[1] \in Range(parents[v])

\* C3 as stated: after canonicalization, for every constraint
\* (ref.col -> T.col), ref.get_column(col) is None.
C3_RefColumnNotFound ==
    Canonicalized =>
        \A f \in fks : get_column(CurrentGraph, f[1], f[2]) = None

\* C3 as amended: after canonicalization, for every constraint
\* (ref.col -> T.col), ref.get_column(col) is not None: it is the one child
\* of ref with id col, a Column vertex that has ref among its parents.
C3_RefColumnFound ==
    Canonicalized =>
        \A f \in fks :
            LET v == get_column(CurrentGraph, f[1], f[2])
            IN  /\ v # None
                /\ id(v) = f[2]
                /\ f[1] \in Range(parents[v])
                /\ Cardinality({ i \in 1..Len(children[f[1]]) :
                                    id(children[f[1]][i]) = f[2] }) = 1

\* A constraint between two tables was processed and the referencing
\* table's own column vertex was replaced by the referenced table's.
C3_Witness ==
    /\ Canonicalized
    /\ \E f \in fks :
          /\ f[1] # f[3]
          /\ get_column(CurrentGraph, f[1], f[2]) = <<f[3], f[2]>>
          /\ <<f[1], f[2]>> \notin Range(children[f[1]])

\* C4: if tables A and C both reference table B's key, then after
\* canonicalization A, B and C are all parents of one Column vertex.
C4_Transitivity ==
    Canonicalized =>
        \A c \in Columns : \A A \in Tables, B \in Tables, C \in Tables :
            (/\ A # B /\ C # B /\ A # C
             /\ <<A, c, B>> \in fks /\ <<C, c, B>> \in fks)
            => \E v \in Vertices :
                  id(v) = c /\ {A, B, C} \subseteq Range(parents[v])

\* C5: after canonicalization the primary_key of every table that has one is
\* a direct child of the table or a vertex whose parents include the table.
C5_PrimaryKeyAttached ==
    Canonicalized =>
        \A t \in Tables :
            primary_key[t] # None =>
                \/ primary_key[t] \in Range(children[t])
                \/ t \in Range(parents[primary_key[t]])

\* What the leaves phase builds for table t from the catalog's rows.
LeavesChildren(t) ==
    [i \in 1..Len(catalog_columns[t]) |-> <<t, catalog_columns[t][i].Field>>]
LeavesPrimaryKey(t) ==
    LET pri == { i \in 1..Len(catalog_columns[t]) :
                    catalog_columns[t][i].Key = "PRI" }
    IN  IF pri = {} THEN None
        ELSE <<t, catalog_columns[t][CHOOSE i \in pri :
                                        \A j \in pri : j <= i].Field>>

\* C6: canonicalization leaves every table that no constraint names as it
\* was after the leaves phase: same children, same primary_key, and the
\* primary key's parents are the table alone.
C6_UninvolvedUnchanged ==
    pc \in {"webs", "done", "called"} =>
        \A t \in Tables :
            ~Participates(t) =>
                /\ children[t] = LeavesChildren(t)
                /\ primary_key[t] = LeavesPrimaryKey(t)
                /\ \A i \in 1..Len(children[t]) :
                      parents[children[t][i]] = <<t>>
                /\ primary_key[t] # None => parents[primary_key[t]] = <<t>>

\* Canonicalization merged a key while a table with a primary key stayed
\* outside every constraint.
C6_Witness ==
    /\ Canonicalized
    /\ \E f \in fks : f[1] # f[3]
    /\ \E t \in Tables : ~Participates(t) /\ primary_key[t] # None

\* The schema gene(GeneID PK, PhageID FK -> phage.PhageID), phage(PhageID PK)
GeneRows == << [Field |-> "GeneID", Type |-> Varchar35, Key |-> "PRI"],
               [Field |-> "PhageID", Type |-> Varchar25, Key |-> "MUL"] >>
GenePhageSchema(gene, phage) ==
    /\ Len(db_children) = 2
    /\ fks = {<<gene, "PhageID", phage>>}
    /\ catalog_columns[gene] = GeneRows
    /\ catalog_columns[phage] = KeyOnly

\* C7: for the gene/phage schema, in either listing order, after
\* introspection gene.get_column("PhageID").parents is [phage, gene] and
\* find_path(gene, phage) returns [["phage", "PhageID"]].
C7_GenePhage ==
    (Canonicalized /\ Len(db_children) = 2) =>
        \A gene \in {1, 2} :
            LET phage == 3 - gene
            IN  GenePhageSchema(gene, phage) =>
                  /\ get_column(CurrentGraph, gene, "PhageID") # None
                  /\ parents[get_column(CurrentGraph, gene, "PhageID")]
                         = <<phage, gene>>
                  /\ (pc = "called" /\ call.curr = gene /\ call.target = phage)
                         => call.result = PathResult(<< <<phage, "PhageID">> >>)

\* find_path(gene, phage) returned on the gene/phage schema with gene
\* listed before phage.
C7_Witness ==
    /\ pc = "called"
    /\ GenePhageSchema(1, 2)
    /\ call.curr = 1 /\ call.target = 2
    /\ call.result.kind = "path"

\* The hops of path lead from start to target: every hop names a Column
\* vertex whose parents include the table before the hop and the hop's table.
ValidHops(start, target, path) ==
    /\ \A i \in 1..Len(path) :
          LET from == IF i = 1 THEN start ELSE path[i-1][1]
          IN  \E v \in Vertices :
                  /\ id(v) = path[i][2]
                  /\ from \in Range(parents[v])
                  /\ path[i][1] \in Range(parents[v])
    /\ IF Len(path) = 0 THEN start = target
       ELSE path[Len(path)][1] = target

\* C8: whenever find_path(start, target) returns a path, the path is a valid
\* hop sequence from start that ends at target.
C8_Sound ==
    (pc = "called" /\ call.result.kind = "path") =>
        ValidHops(call.curr, call.target, call.result.path)

\* Tables linked by a Column vertex with more than one parent table.
Linked(a, b) ==
    \E v \in Vertices :
        /\ Cardinality(Range(parents[v])) > 1
        /\ a \in Range(parents[v])
        /\ b \in Range(parents[v])
RECURSIVE ReachableFrom(_)
ReachableFrom(S) ==
    LET S2 == S \cup { b \in Tables : \E a \in S : Linked(a, b) }
    IN  IF S2 = S THEN S ELSE ReachableFrom(S2)
Reachable(a, b) == b \in ReachableFrom({a})

\* C9: if target is reachable from start through a chain of Column vertices
\* with more than one parent table, find_path(start, target) returns a path.
C9_Complete ==
    (pc = "called" /\ Reachable(call.curr, call.target)) =>
        call.result.kind = "path"

\* C10: if target is not reachable from start through any chain of
\* shared-key Column vertices, find_path(start, target) returns None.
C10_NoPath ==
    (pc = "called" /\ ~Reachable(call.curr, call.target)) =>
        call.result = NoPath
\* The accumulated path of the last find_path call
Called == pc \in {"called", "called_from"}
CallPath == IF pc = "called_from" THEN call.current_path ELSE <<>>

\* C11: for every table X, find_path(X, X) returns the accumulated path
\* unchanged, the empty path when none was handed over, whatever X's links
\* and primary key are (a table without primary key included).
C11_SameTable ==
    (Called /\ call.curr = call.target) =>
        call.result = PathResult(CallPath)

\* find_path(X, X) was called with an accumulated path for a table X that
\* has no primary key.
C11_Witness ==
    /\ pc = "called_from"
    /\ call.curr = call.target
    /\ primary_key[call.curr] = None
    /\ call.current_path # <<>>
    /\ call.result = PathResult(call.current_path)
\* The table ids on a path are pairwise distinct.
DistinctTables(path) ==
    \A i \in 1..Len(path), j \in 1..Len(path) :
        i # j => path[i][1] # path[j][1]

\* C17: find_path terminates on every graph construction can build, cycles
\* of shared-key vertices included: every call it makes, at any depth, has
\* an accumulated path of pairwise distinct table ids, so the depth of the
\* recursion never exceeds the number of tables.
C17_Terminates ==
    pc = "called" =>
        \A path \in call.frames :
            /\ DistinctTables(path)
            /\ Len(path) <= Cardinality(Tables)

\* find_path returned from a search in a graph where the constraints form
\* a cycle, after recursing at least two calls deep.
C17_Witness ==
    /\ pc = "called"
    /\ \E a \in Tables, b \in Tables, c \in Columns :
          a # b /\ <<a, c, b>> \in fks /\ <<b, c, a>> \in fks
    /\ \E path \in call.frames : Len(path) >= 2

\* C18: in every path find_path returns when called without an accumulated
\* path the hop table ids are pairwise distinct and the target's id occurs
\* only in the last hop.
C18_DistinctHops ==
    (pc = "called" /\ call.result.kind = "path") =>
        /\ DistinctTables(call.result.path)
        /\ \A i \in 1..(Len(call.result.path) - 1) :
              call.result.path[i][1] # call.target

\* find_path returned a path of three hops.
C18_Witness ==
    /\ pc = "called"
    /\ call.result.kind = "path"
    /\ Len(call.result.path) >= 3

\* C19: for start # target, no hop of a path that find_path returns names
\* the table the search started from.
C19_StartNotRevisited ==
    (pc = "called" /\ call.result.kind = "path" /\ call.curr # call.target) =>
        \A i \in 1..Len(call.result.path) :
            call.result.path[i][1] # call.curr
\* The current table's primary_key vertex has more than one parent and the
\* target table is among them.
KeySharedWithTarget ==
    /\ Called
    /\ primary_key[call.curr] # None
    /\ Len(parents[primary_key[call.curr]]) > 1
    /\ call.target \in Range(parents[primary_key[call.curr]])

\* C20 as stated: if the current table's primary_key vertex has more than
\* one parent and the target table is among those parents,
\* find_path(current, target, path) returns path followed by the single hop
\* [target.id, primary_key.id].
C20_KeyFirstAnyTarget ==
    KeySharedWithTarget =>
        call.result = PathResult(Append(CallPath,
                          <<call.target, id(primary_key[call.curr])>>))

\* C20 as amended: the same for a target table other than the current
\* table, whatever other link columns the current table has.
C20_KeyFirst ==
    (KeySharedWithTarget /\ call.curr # call.target) =>
        call.result = PathResult(Append(CallPath,
                          <<call.target, id(primary_key[call.curr])>>))

\* find_path was called with an accumulated path for a table whose primary
\* key and whose other link column are both shared with the target.
C20_Witness ==
    /\ pc = "called_from"
    /\ KeySharedWithTarget
    /\ call.curr # call.target
    /\ \E i \in 1..Len(children[call.curr]) :
          LET column == children[call.curr][i]
          IN  /\ column # primary_key[call.curr]
              /\ Len(parents[column]) > 1
              /\ call.target \in Range(parents[column])
    /\ call.result = PathResult(Append(call.current_path,
                          <<call.target, id(primary_key[call.curr])>>))
\* The number of times x occurs in the list s
Count(s, x) == Cardinality({ i \in 1..Len(s) : s[i] = x })

\* C15: after any sequence of add_parent, add_child, create_parent,
\* create_child, create_column, create_table, remove_parent and remove_child
\* calls on vertices built with empty edge lists, v2 occurs in v1.children
\* exactly as many times as v1 occurs in v2.parents.
C15_EdgeSymmetry ==
    \A v1 \in DOMAIN children, v2 \in DOMAIN parents :
        Count(children[v1], v2) = Count(parents[v2], v1)

\* An edge that was added twice lost one of its two occurrences to a
\* removal that did not raise.
C15_Witness ==
    /\ pc = "nodes"
    /\ cur = 3
    /\ call.op \in {"remove_parent", "remove_child"}
    /\ ~call.raised
    /\ call.arg # None
    /\ \E v1 \in Nodes, v2 \in Nodes :
          /\ {v1, v2} = {call.self, call.arg}
          /\ Count(children[v1], v2) = 1
          /\ Count(parents[v2], v1) = 1
\* The probes that are the last one of their Column vertex
LastProbes ==
    { i \in 1..Len(probes) :
         \A j \in (i+1)..Len(probes) : probes[j].column # probes[i].column }

\* C14: a column that qualifies for the cardinality probe is classified
\* limited_set if and only if its distinct-value count, the answer to the
\* last probe of the column, is strictly below 150.
C14_LimitedSet ==
    pc = "done" =>
        \A i \in LastProbes :
            group[probes[i].column] = "limited_set" <=> probes[i].count < 150
\* The columns the catalog listed for table t
CatalogFields(t) ==
    { catalog_columns[t][i].Field : i \in 1..Len(catalog_columns[t]) }

\* C12: build_values called with a table name that is not in the graph, or
\* with a column name that is not a column of that table, raises ValueError
\* and passes no statement to the catalog backend.
C12_Rejected ==
    (pc = "built" /\ (\/ call.table \notin Tables
                      \/ call.column \notin CatalogFields(call.table))) =>
        /\ call.result.kind = "ValueError"
        /\ call.result.statements = <<>>

\* build_values was called with conditions and prior values for a listed
\* table and a column the table does not have.
C12_Witness ==
    /\ pc = "built"
    /\ call.table \in Tables
    /\ call.column \notin CatalogFields(call.table)
    /\ call.queries # <<>>
    /\ call.values # <<>>
    /\ call.result.kind = "ValueError"

\* The string pieces of the lists in ls, in order, with sep between
\* neighbouring lists
RECURSIVE Separated(_, _)
Separated(ls, sep) ==
    IF ls = <<>> THEN <<>>
    ELSE IF Len(ls) = 1 THEN ls[1]
    ELSE ls[1] \o <<sep>> \o Separated(Tail(ls), sep)

\* The IN test of the last build_values call: the prior values in order,
\* against values_column if given, else the id of the table's primary_key
InTest ==
    << IF call.values_column # None THEN call.values_column[1]
       ELSE id(primary_key[call.table]),
       " IN ('" >>
    \o Separated([i \in 1..Len(call.values) |-> <<call.values[i]>>], "','")
    \o <<"')">>

\* The conditions of the WHERE clause of the last build_values call
Conditions ==
    [i \in 1..Len(call.queries) |-> <<call.queries[i]>>]
    \o (IF call.values # <<>> THEN <<InTest>> ELSE <<>>)

\* C13: the statement build_values builds is SELECT column FROM table, with
\* a WHERE clause if and only if there are extra conditions or prior values;
\* the clause is every extra condition verbatim in order, joined with and,
\* followed when there are prior values by one IN test that lists them in
\* order against values_column if given, else against the id of the
\* table's primary_key.
C13_Statement ==
    (pc = "built" /\ call.result.statements # <<>>) =>
        /\ Len(call.result.statements) = 1
        /\ (\E i \in 1..Len(call.result.statements[1]) :
                call.result.statements[1][i] = " WHERE ")
               <=> (call.queries # <<>> \/ call.values # <<>>)
        /\ call.result.statements[1] =
              <<"SELECT ", call.column, " FROM ", ToString(call.table)>>
              \o (IF call.queries # <<>> \/ call.values # <<>>
                  THEN <<" WHERE ">> \o Separated(Conditions, " and ")
                  ELSE <<>>)

\* build_values built a statement with two conditions and two prior values
\* for a table whose primary key is a vertex created for another table.
C13_Witness ==
    /\ pc = "built"
    /\ call.result.statements # <<>>
    /\ Len(call.queries) = 2
    /\ Len(call.values) = 2
    /\ call.values_column = None
    /\ primary_key[call.table][1] # call.table
WebsStepRow == CHOOSE row \in fks' \ fks : TRUE

\* The tables other than ref_table that are parents of vertex fk
OtherOwners(fk, ref_table) ==
    { t \in Range(parents[fk]) : t # ref_table }

\* C21: when a constraint (refTable.col -> T.col) is processed and the
\* duplicate vertex fk has k >= 1 parents besides refTable, then after the
\* step all k of those tables are parents of the canonical vertex pk, none
\* of them still has fk as a child, and fk.parents is empty.
C21_MovesEveryOwner ==
    [][(pc = "webs" /\ pc' = "webs" /\ fks' # fks) =>
         LET ref_table == WebsStepRow[1]
             column == WebsStepRow[2]
             table == WebsStepRow[3]
             pk == get_column(CurrentGraph, table, column)
             fk == get_column(CurrentGraph, ref_table, column)
         IN  (pk # None /\ fk # None /\ fk # pk
              /\ OtherOwners(fk, ref_table) # {}) =>
                 /\ \A t \in OtherOwners(fk, ref_table) :
                       /\ t \in Range(parents'[pk])
                       /\ fk \notin Range(children'[t])
                 /\ parents'[fk] = <<>>]_vars

\* The constraint listing has a self-referencing row (T.col -> T.col) or a
\* cycle between same-named columns (A.col -> B.col and B.col -> A.col).
SelfReference == \E row \in fks : row[1] = row[3]
CyclicReference ==
    \E row \in fks : row[1] # row[3] /\ <<row[3], row[2], row[1]>> \in fks

\* C22: canonicalization never raises on a catalog with self-referencing or
\* cyclic foreign keys between same-named columns, whatever the table order.
C22_NeverFails ==
    (SelfReference \/ CyclicReference) => pc # "failed"

\* Construction ran to completion on a catalog with a self-referencing row
\* and a cycle between two tables.
C22_Witness ==
    /\ pc = "done"
    /\ SelfReference
    /\ CyclicReference

\* A step of a remove_parent or remove_child call
RemovalStep ==
    /\ pc = "nodes"
    /\ cur' = cur + 1
    /\ call'.op \in {"remove_parent", "remove_child"}

\* The two ends of the edge the call is to remove: child and parent
RemovalChild ==
    IF call'.op = "remove_parent" THEN call'.self ELSE call'.arg
RemovalParent ==
    IF call'.op = "remove_parent" THEN call'.arg ELSE call'.self

\* The argument of the call is linked to self when the call is made
RemovalLinked ==
    /\ call'.arg # None
    /\ IF call'.op = "remove_parent"
       THEN call'.arg \in Range(parents[call'.self])
       ELSE call'.arg \in Range(children[call'.self])

\* The call removed one occurrence of the edge on both sides and nothing
\* else, raised nothing and returned its argument.
RemovedOneEdge ==
    /\ ~call'.raised
    /\ call'.returned = call'.arg
    /\ parents' = [parents EXCEPT ![RemovalChild] = ListRemove(@, RemovalParent)]
    /\ children' = [children EXCEPT ![RemovalParent] = ListRemove(@, RemovalChild)]

\* C23 as stated: remove_parent and remove_child called with the "no
\* vertex" sentinel, or with a vertex that is not linked, raise nothing,
\* change no parents or children list and return their argument; called
\* with a linked vertex they remove one occurrence on both sides.
C23_AbsentIsNoOp ==
    [][RemovalStep =>
         IF RemovalLinked THEN RemovedOneEdge
         ELSE /\ ~call'.raised
              /\ call'.returned = call'.arg
              /\ UNCHANGED <<children, parents, defaults, error_vars,
                             parallel_vars>>]_vars

\* C23 amended: called with the "no vertex" sentinel they raise nothing,
\* change no list and return the sentinel; called with a vertex that is not
\* linked they raise (ValueError of list.remove) and change no list; called
\* with a linked vertex they remove one occurrence on both sides.
C23_GuardedRemoval ==
    [][RemovalStep =>
         IF RemovalLinked THEN RemovedOneEdge
         ELSE IF call'.arg = None
         THEN /\ ~call'.raised
              /\ call'.returned = None
              /\ UNCHANGED <<children, parents, defaults, error_vars,
                             parallel_vars>>
         ELSE /\ call'.raised
              /\ UNCHANGED <<children, parents, defaults, error_vars,
                             parallel_vars>>]_vars

\* After an edge was added, a removal was called with the sentinel and
\* then a removal with a vertex that is not linked raised.
C23_Witness ==
    /\ pc = "nodes"
    /\ cur = 3
    /\ call.op \in {"remove_parent", "remove_child"}
    /\ call.arg # None
    /\ call.raised
    /\ \E n \in Nodes : children[n] # <<>>

\* The list the last lookup scanned, tables written as <<table>>
LookupList ==
    IF call.op = "get_child" THEN children[call.self]
    ELSE IF call.op = "get_parent"
    THEN [i \in 1..Len(parents[call.self]) |-> <<parents[call.self][i]>>]
    ELSE [i \in 1..Len(db_children) |-> <<db_children[i]>>]

\* The id of a vertex a lookup gave
LookupId(v) == IF call.op = "get_child" THEN id(v) ELSE v[1]

\* C24: lookup by id agrees with membership: get_child(x) is None exactly
\* when has_child(x) is false, otherwise it is a child whose id is x;
\* likewise for get_parent and has_parent, and for the tables of the
\* database, so that an unknown name gives the sentinel.
C24_LookupAgrees ==
    pc = "looked" =>
        /\ (call.got = None) <=> ~call.has
        /\ call.has =>
              /\ call.got \in Range(LookupList)
              /\ LookupId(call.got) = call.id
        /\ call.has <=> \E i \in 1..Len(LookupList) :
                            LookupId(LookupList[i]) = call.id

\* A column that is not the table's first child was looked up and found,
\* in a graph where two tables share a vertex.
C24_Witness ==
    /\ pc = "looked"
    /\ call.op = "get_child"
    /\ call.has
    /\ call.got # children[call.self][1]
    /\ \E v \in Vertices : Len(parents[v]) > 1

\* The Column vertices that are a child of a listed table
AttachedColumns ==
    { v \in Vertices : \E t \in Tables : v \in Range(children[t]) }

\* The number of COUNT(DISTINCT ...) queries issued for Column vertex v
ProbesOf(v) == Cardinality({ i \in 1..Len(probes) : probes[i].column = v })

\* C25: the classification phase issues exactly one COUNT(DISTINCT ...)
\* query per qualifying Column vertex and none for the others; a qualifying
\* key column shared by several tables is probed once.
C25_OneProbePerVertex ==
    pc = "done" =>
        \A v \in AttachedColumns :
            ProbesOf(v) = IF GroupTypeOf[ColumnTypes({v})[v]] \in limited_sets
                          THEN 1 ELSE 0

\* C26: after classification every column whose normalized type is a blob
\* or variable-length string type has group str_set or limited_set, and
\* every column whose normalized type is an integer, decimal,
\* floating-point or timestamp type has group num_set or limited_set; a
\* probed column such as a tinyint whose distinct count is 150 or more ends
\* in the group of its base type and is not left undefined.
C26_GroupOfBaseType ==
    pc = "done" =>
        \A t \in Tables : \A i \in 1..Len(catalog_columns[t]) :
            LET row == catalog_columns[t][i]
                column == get_column(CurrentGraph, t, row.Field)
                type == parse_type(row.Type)
            IN  /\ type \in str_sets \ {varchar_sm} =>
                      group[column] \in {"str_set", "limited_set"}
                /\ type \in num_sets \cup {<<"t","i","n","y","i","n","t">>} =>
                      group[column] \in {"num_set", "limited_set"}

\* DatabaseTree.__init__ as one computation, for a catalog whose tables are
\* listed in the given order: the three set-up functions in turn.  The
\* tables keep their column rows and their constraint rows; count gives the
\* backend's answer to a probe of a column of a table.
EmptyGraph ==
    Graph([t \in TableIds |-> <<>>], [v \in Vertices |-> <<>>],
          [t \in TableIds |-> None], TRUE)

RECURSIVE LeavesRun(_, _, _)
LeavesRun(g, order, i) ==
    IF i > Len(order) THEN g
    ELSE LeavesRun(LeavesColumns(g, order[i], catalog_columns[order[i]], 1),
                   order, i + 1)

RECURSIVE WebsRun(_, _, _)
WebsRun(g, order, i) ==
    IF ~g.ok \/ i > Len(order) THEN g
    ELSE IF ConstraintRows(order[i]) = {} THEN WebsRun(g, order, i + 1)
         ELSE LET row == CHOOSE f \in ConstraintRows(order[i]) : TRUE
              IN  WebsRun(WebsConstraint(g, order[i], row[1], row[2]),
                          order, i + 1)

RECURSIVE GroupsRun(_, _, _, _, _)
GroupsRun(s, g, order, count, i) ==
    IF ~s.ok \/ i > Len(order) THEN s
    ELSE LET table == order[i]
             columns == g.children[table]
         IN  GroupsRun(
                 GroupColumns(s, table, columns, ColumnTypes(Range(columns)),
                              [j \in 1..Len(columns) |->
                                   count[<<table, id(columns[j])>>]], 1),
                 g, order, count, i + 1)

DatabaseTreeRun(order, count) ==
    LET g == WebsRun(LeavesRun(EmptyGraph, order, 1), order, 1)
        s == GroupsRun([group |-> [v \in Vertices |-> "Undefined"],
                        probes |-> <<>>, ok |-> g.ok],
                       g, order, count, 1)
    IN  [graph |-> g, group |-> s.group, probes |-> s.probes, ok |-> s.ok]

\* The orders in which the catalog can list the tables, the columns of the
\* catalog, and the answers the backend gave to the probes made.
TableOrders ==
    { order \in [1..Len(db_children) -> Range(db_children)] :
        \A a, b \in 1..Len(db_children) : order[a] = order[b] => a = b }
CatalogColumns ==
    UNION { { <<t, catalog_columns[t][i].Field>> :
                i \in 1..Len(catalog_columns[t]) } : t \in Range(db_children) }
Probed == { <<probes[i].table, id(probes[i].column)>> : i \in 1..Len(probes) }
Answer(p) ==
    probes[CHOOSE i \in 1..Len(probes) :
               <<probes[i].table, id(probes[i].column)>> = p].count

\* C27: the group of a canonical column shared by several tables does not
\* depend on the order in which the catalog lists the tables: with the same
\* per-table distinct counts, a run over the same tables listed in any
\* other order gives every column of every table the same group.  (Stated
\* for catalogs with at most one constraint row per table, where the two
\* runs differ in nothing but the table order.)
C27_OrderIndependent ==
    (pc = "done" /\ \A t \in Range(db_children) :
                        Cardinality(ConstraintRows(t)) <= 1) =>
        \A order \in TableOrders :
          \A free \in [CatalogColumns \ Probed -> Counts] :
            LET count == [p \in CatalogColumns |->
                            IF p \in Probed THEN Answer(p) ELSE free[p]]
                run == DatabaseTreeRun(order, count)
            IN  (run.ok /\ ConsistentProbes(run.probes)) =>
                  \A p \in CatalogColumns :
                    LET here == get_column(CurrentGraph, p[1], p[2])
                        there == get_column(run.graph, p[1], p[2])
                    IN  (here # None /\ there # None) =>
                            group[here] = run.group[there]

Items == 0..1
TaskResults == <<"None", "a">>
task(item) == TaskResults[item + 1]

\* What show_progress can return: parallelize drops both (line 117).
ProgressResults == {"None", "ProgressBar"}

\* mp.cpu_count(): the machine has two processors.
cpu_count == 2

Min(S) == CHOOSE x \in S : \A y \in S : x <= y

count_processors(inputs, num_processors) ==
    IF num_processors < 1 \/ num_processors > cpu_count
    THEN Min({cpu_count, Len(inputs)})
    ELSE num_processors

\* The jobs and the STOP signal as they sit in job_queue.
Job(func, args) == [func |-> func, args |-> args]
STOP == Job("STOP", <<>>)

\* Lines 87-92 and 96-98 from index i on; s holds job_queue and tasks.
RECURSIVE PutInputs(_, _, _, _, _)
PutInputs(s, inputs, verbose, interval, i) ==
    IF i >= Len(inputs) THEN s
    ELSE LET s1 == IF verbose /\ i % interval = 0
                   THEN [job_queue |->
                            Append(s.job_queue,
                                   Job("show_progress", <<i, Len(inputs)>>)),
                         tasks |-> s.tasks + 2]
                   ELSE [s EXCEPT !.tasks = @ + 1]
         IN  PutInputs([s1 EXCEPT !.job_queue = Append(@, inputs[i + 1])],
                       inputs, verbose, interval, i + 1)

\* start_processes_jobs with the plausible slip of leaving out line 93,
\* the count of the closing show_progress job.
start_processes_jobs_uncounted(inputs, num_processors, verbose) ==
    LET s == PutInputs([job_queue |-> <<>>, tasks |-> 0], inputs, verbose,
                       Max({1, Len(inputs) \div 100}), 0)
        s1 == IF verbose
              THEN [s EXCEPT !.job_queue =
                        Append(@, Job("show_progress",
                                      <<Len(inputs), Len(inputs)>>))]
              ELSE s
    IN  [s1 EXCEPT !.job_queue = @ \o [k \in 1..num_processors |-> STOP]]

\* Lines 77-102 of start_processes: the queue of jobs with the STOP
\* signals at its end, and the counter tasks.
start_processes_jobs(inputs, num_processors, verbose) ==
    LET s == PutInputs([job_queue |-> <<>>, tasks |-> 0], inputs, verbose,
                       Max({1, Len(inputs) \div 100}), 0)
        s1 == IF verbose
              THEN [job_queue |->
                       Append(s.job_queue,
                              Job("show_progress",
                                  <<Len(inputs), Len(inputs)>>)),
                    tasks |-> s.tasks + 1]
              ELSE s
    IN  [s1 EXCEPT !.job_queue = @ \o [k \in 1..num_processors |-> STOP]]

\* The tasks list of parallelize, lines 32-36.
Tasks(inputs) == [i \in 1..Len(inputs) |-> Job("task", <<inputs[i]>>)]

InputLists ==
    UNION { [1..n -> Items] : n \in 0..MaxInputs }

\* parallelize is called; with no inputs it returns at once.
Parallelize ==
    /\ main.pc = "idle"
    /\ \E inputs \in InputLists, num_processors \in 0..(cpu_count + 1),
          verbose \in BOOLEAN :
         IF Len(inputs) = 0
         THEN /\ main' = [pc |-> "returned", inputs |-> inputs,
                          num_processors |-> 0, jobs |-> <<>>, tasks |-> 0,
                          started |-> 0, got |-> 0, results |-> <<>>,
                          joined |-> 0]
              /\ UNCHANGED <<job_queue, workers>>
         ELSE LET n == count_processors(inputs, num_processors)
                  s == start_processes_jobs(Tasks(inputs), n, verbose)
              IN  /\ main' = [pc |-> "start", inputs |-> inputs,
                              num_processors |-> n, jobs |-> s.job_queue,
                              tasks |-> s.tasks, started |-> 0,
                              got |-> 0, results |-> <<>>, joined |-> 0]
                  /\ job_queue' = s.job_queue
                  /\ workers' = [w \in 1..n |->
                                   [pc |-> "unstarted", job |-> STOP,
                                    result |-> "None", stops |-> 0]]
    /\ UNCHANGED <<pc, cur, db_children, children, parents, primary_key,
                   group, catalog_columns, fks, probes, call, defaults,
                   error_vars, done_queue, ran>>

\* Lines 106-109: the main process starts the workers.  A worker that is
\* started and has not yet taken a job is as one that is not yet started,
\* so the loop is one step.
StartWorkers ==
    /\ main.pc = "start"
    /\ workers' = [w \in DOMAIN workers |-> [workers[w] EXCEPT !.pc = "get"]]
    /\ main' = [main EXCEPT !.started = main.num_processors,
                            !.pc = "collect"]
    /\ UNCHANGED <<pc, cur, db_children, children, parents, primary_key,
                   group, catalog_columns, fks, probes, call, defaults,
                   error_vars, job_queue, done_queue, ran>>

\* The position in main.jobs of the job at the head of job_queue.
HeadPosition == Len(main.jobs) - Len(job_queue) + 1

\* worker, line 63: input_queue.get() gives the head of the queue; the
\* loop ends at the STOP signal.
WorkerGet(w) ==
    /\ w \in DOMAIN workers
    /\ workers[w].pc = "get"
    /\ job_queue # <<>>
    /\ job_queue' = Tail(job_queue)
    /\ workers' = IF Head(job_queue) = STOP
                  THEN [workers EXCEPT ![w].pc = "exited",
                                       ![w].stops = @ + 1]
                  ELSE [workers EXCEPT ![w].pc = "run",
                                       ![w].job = Head(job_queue)]
    /\ ran' = IF Head(job_queue) = STOP THEN ran
              ELSE Append(ran, [job |-> HeadPosition, worker |-> w])
    /\ UNCHANGED <<pc, cur, db_children, children, parents, primary_key,
                   group, catalog_columns, fks, probes, call, defaults,
                   error_vars, done_queue, main>>

\* worker, lines 64-65: result = func(*args), the task returning
\* normally, and output_queue.put(result).
WorkerRun(w) ==
    /\ w \in DOMAIN workers
    /\ workers[w].pc = "run"
    /\ \E result \in IF workers[w].job.func = "show_progress"
                     THEN ProgressResults
                     ELSE {task(workers[w].job.args[1])} :
         /\ done_queue' = Append(done_queue, result)
         /\ workers' = [workers EXCEPT ![w].pc = "get", ![w].result = result]
    /\ UNCHANGED <<pc, cur, db_children, children, parents, primary_key,
                   group, catalog_columns, fks, probes, call, defaults,
                   error_vars, job_queue, main, ran>>

Worker(w) == WorkerGet(w) \/ WorkerRun(w)

\* Lines 115-118: done_queue.get() for each of the tasks counted, keeping
\* what is neither None nor a ProgressBar.
MainGet ==
    /\ main.pc = "collect"
    /\ main.got < main.tasks
    /\ done_queue # <<>>
    /\ done_queue' = Tail(done_queue)
    /\ main' = [main EXCEPT
                   !.got = @ + 1,
                   !.results = IF /\ Head(done_queue) # "None"
                                  /\ Head(done_queue) # "ProgressBar"
                               THEN Append(@, Head(done_queue)) ELSE @]
    /\ UNCHANGED <<pc, cur, db_children, children, parents, primary_key,
                   group, catalog_columns, fks, probes, call, defaults,
                   error_vars, job_queue, workers, ran>>

\* Line 120: the main process joins the workers in turn, each join
\* returning once the worker has exited; line 122 returns the results.
MainJoin ==
    /\ main.pc = "collect"
    /\ main.got = main.tasks
    /\ IF main.joined < main.num_processors
       THEN /\ workers[main.joined + 1].pc = "exited"
            /\ main' = [main EXCEPT !.joined = @ + 1]
       ELSE main' = [main EXCEPT !.pc = "returned"]
    /\ UNCHANGED <<pc, cur, db_children, children, parents, primary_key,
                   group, catalog_columns, fks, probes, call, defaults,
                   error_vars, job_queue, done_queue, workers, ran>>

Main == Parallelize \/ StartWorkers \/ MainGet \/ MainJoin

\* No graph is under construction: only parallelize runs.
InitParallel ==
    /\ pc = "parallel"
    /\ cur = 0
    /\ db_children = <<>>
    /\ children = [t \in TableIds |-> <<>>]
    /\ parents = [v \in Vertices |-> <<>>]
    /\ primary_key = [t \in TableIds |-> None]
    /\ group = [v \in Vertices |-> "Undefined"]
    /\ catalog_columns = [t \in TableIds |-> <<>>]
    /\ fks = {}
    /\ probes = <<>>
    /\ call = NoCall
    /\ defaults = NoDefaults
    /\ error = NoException
    /\ raised = NoException
    /\ NoParallelize

NextParallel ==
    \/ Parallelize
    \/ StartWorkers
    \/ MainGet
    \/ MainJoin
    \/ \E w \in 1..cpu_count : WorkerGet(w)
    \/ \E w \in 1..cpu_count : WorkerRun(w)

SpecParallel == InitParallel /\ [][NextParallel]_vars

\* The operating system runs every process that can take a step: the
\* main process and each worker.
SpecParallelFair ==
    /\ SpecParallel
    /\ WF_vars(Main)
    /\ \A w \in 1..cpu_count : WF_vars(Worker(w))

\* The positions in main.jobs of the jobs, the STOP signals apart.
EnqueuedJobs == { k \in 1..Len(main.jobs) : main.jobs[k] # STOP }

\* C30: parallelize with a non-empty input list and at least one worker,
\* every task returning normally, terminates, and when it has returned
\* every enqueued job (input or progress job) was taken and run by exactly
\* one worker, the main process received exactly one result per enqueued
\* job, every worker consumed exactly one STOP and exited, and the list
\* returned holds each non-None task result as often as the inputs give
\* it, and nothing else.
C30_Returned ==
    main.pc = "returned" =>
        /\ \A k \in EnqueuedJobs :
              Cardinality({ i \in 1..Len(ran) : ran[i].job = k }) = 1
        /\ main.got = Cardinality(EnqueuedJobs)
        /\ done_queue = <<>>
        /\ job_queue = <<>>
        /\ \A w \in DOMAIN workers :
              workers[w].pc = "exited" /\ workers[w].stops = 1
        /\ Len(main.results) =
              Cardinality({ i \in 1..Len(main.inputs) :
                              task(main.inputs[i]) # "None" })
        /\ \A item \in Items :
              task(item) # "None" =>
                  Count(main.results, task(item)) = Count(main.inputs, item)
C30_Terminates ==
    /\ (main.pc = "start") ~> (main.pc = "returned")
    /\ []C30_Returned

\* A verbose run of two workers returned: the input's result is in the
\* list, the results of the two progress jobs were received and dropped,
\* and both workers ran a job.
C30_Witness ==
    /\ main.pc = "returned"
    /\ main.num_processors = 2
    /\ main.results = <<"a">>
    /\ main.got = 3
    /\ \E i, j \in 1..Len(ran) : ran[i].worker # ran[j].worker
====
